---- MODULE Spec2Model ----
(***************************************************************************)
(* Room session and access-control state machine of the chat service       *)
(* (cb/consumers.py, cb/views.py, cb/models.py).                            *)
(*                                                                         *)
(* One step of a handler is the effect of the operation it awaits,         *)
(* followed by the synchronous code up to the next await.  Database        *)
(* helpers (database_sync_to_async) are single atomic steps.  A consumer   *)
(* runs one handler at a time; deletion tasks run beside the consumers.    *)
(*                                                                         *)
(* Time is kept as elapsed time: LAST_SEEN holds time.time() minus the     *)
(* stored stamp (saturating at REFRESH_GRACE, beyond which the code cannot *)
(* tell ages apart), a sleeping deletion task holds the rest of its sleep. *)
(* Database and channel-layer calls are short against the time unit: time  *)
(* passes between handler steps of one instant, not inside an await other  *)
(* than the deletion task's sleep.                                         *)
(*                                                                         *)
(* The toggle_lock view of cb/views.py and the created_by column it reads  *)
(* are outside the session state machine and are not modelled.             *)
(*                                                                         *)
(* Spec is the session machine with the clock; SpecChat is the exchange of *)
(* payloads between connections that stay, without the clock; SpecCodec    *)
(* is cb/huffman_codec.py alone.  sent holds what the last step passed to  *)
(* self.send; hist records what the claims need of the past.               *)
(***************************************************************************)
EXTENDS Integers, Sequences, FiniteSets, TLC

\* ------------------------------------------------------------------ bounds
\* connections open at the same time
MaxConns == 2
\* connections opened in one behaviour
MaxConnects == 3
\* lock_room commands sent in one behaviour
MaxLocks == 1
\* deletion tasks alive at the same time
MaxTasks == 2
\* events waiting on one channel
MaxInbox == 2
\* characters of a text given to the codec
MaxLen == 4
\* payloads the clients send besides the lock command
MaxPayloads == 2
\* delete calls the store fails
MaxFailures == 1

\* ------------------------------------------------------- program constants
DELETE_TIMEOUT == 30
REFRESH_GRACE == 3
CLOSE_UNAUTHENTICATED == 403
CLOSE_NO_ROOM == 404
CLOSE_LOCKED == 403

Rooms == {"demo"}
Accounts == {"alice", "Bob"}
Anonymous == "AnonymousUser"
\* line 170: two of the five colours random.choice draws from
Colors == {"#3498db", "#e67e22"}
ScopeUsers == Accounts \cup {Anonymous}
None == "None"

\* user.username.strip().lower()
normalize(u) == IF u = "Bob" THEN "bob" ELSE u

Usernames == {normalize(u) : u \in Accounts}
Conns == 1..MaxConns
TaskIds == 1..MaxTasks

group_name(r) == <<"chat", r>>

\* ------------------------------------------------------------ list helpers
Contains(s, x) == \E i \in 1..Len(s) : s[i] = x

\* list.remove(x): drops the first occurrence
Remove(s, x) ==
    LET i == CHOOSE k \in 1..Len(s) : s[k] = x /\ \A j \in 1..(k-1) : s[j] # x
    IN  SubSeq(s, 1, i-1) \o SubSeq(s, i+1, Len(s))

RECURSIVE Dedupe(_)
\* list(dict.fromkeys(s)): keeps the first occurrence of every element
Dedupe(s) ==
    IF s = <<>> THEN <<>>
    ELSE LET init == Dedupe(SubSeq(s, 1, Len(s)-1))
             x == s[Len(s)]
         IN  IF Contains(init, x) THEN init ELSE Append(init, x)

ToSet(s) == {s[i] : i \in 1..Len(s)}

\* d.pop(k, None) on a dict modelled as a function
Pop(d, k) == [x \in (DOMAIN d) \ {k} |-> d[x]]

\* d[k] = v
Put(d, k, v) == [x \in (DOMAIN d) \cup {k} |-> IF x = k THEN v ELSE d[x]]

\* d.get(k, default)
Get(d, k, default) == IF k \in DOMAIN d THEN d[k] ELSE default

VARIABLES
    db,          \* cb_room table: room name -> row, for the rows that exist
    ROOM_USERS,  \* group name -> list of usernames
    ROOM_TIMERS, \* group name -> deletion task
    LAST_SEEN,   \* (group name, username) -> time elapsed since the stamp
    conn,        \* per connection: the consumer instance and its position
    groups,      \* channel layer: group name -> subscribed channels
    inbox,       \* channel layer: channel -> events not yet handled
    tasks,       \* asyncio tasks running delete_room_after_timeout
    used,        \* connections opened and lock commands sent so far
    hist,        \* history, written by the steps and read by none of them
    REACTIONS,   \* the module-level dict of that name
    sent,        \* the frames the last step wrote to websockets
    codec        \* a text on its way through encode_text and decode_text

prog == <<db, ROOM_USERS, ROOM_TIMERS, LAST_SEEN, conn, groups, inbox, tasks>>
vars == <<db, ROOM_USERS, ROOM_TIMERS, LAST_SEEN, conn, groups, inbox, tasks, used, hist,
          REACTIONS, sent, codec>>

EmptyDict == [x \in {} |-> 0]

\* --------------------------------------------------------- cb/huffman_codec.py
\* a text is a sequence of characters, a code a sequence of the bits "0", "1"
Alphabet == {"a", "b", "c"}

Texts == UNION {[1..n -> Alphabet] : n \in 1..MaxLen}

\* HuffmanNode(char, freq); an absent child is <<>>, a child node n is <<n>>
HuffmanNode(char, freq, left, right) ==
    [char |-> char, freq |-> freq, left |-> left, right |-> right]

\* heapq._siftdown, positions counted from 1; nodes compare by __lt__ on freq
RECURSIVE siftdown_loop(_, _, _, _)
siftdown_loop(heap, startpos, pos, newitem) ==
    IF pos > startpos /\ newitem.freq < heap[pos \div 2].freq
    THEN siftdown_loop([heap EXCEPT ![pos] = heap[pos \div 2]], startpos,
                       pos \div 2, newitem)
    ELSE [heap EXCEPT ![pos] = newitem]

siftdown(heap, startpos, pos) == siftdown_loop(heap, startpos, pos, heap[pos])

\* heapq._siftup
\* the child of pos the loop of _siftup moves up: the right one unless the
\* left one is smaller
smaller_child(heap, pos) ==
    IF 2 * pos + 1 <= Len(heap) /\ ~ (heap[2 * pos].freq < heap[2 * pos + 1].freq)
    THEN 2 * pos + 1
    ELSE 2 * pos

RECURSIVE siftup_loop(_, _, _, _)
siftup_loop(heap, startpos, pos, newitem) ==
    IF 2 * pos <= Len(heap)
    THEN siftup_loop([heap EXCEPT ![pos] = heap[smaller_child(heap, pos)]],
                     startpos, smaller_child(heap, pos), newitem)
    ELSE siftdown([heap EXCEPT ![pos] = newitem], startpos, pos)

siftup(heap, pos) == siftup_loop(heap, pos, pos, heap[pos])

\* heapq.heapify
RECURSIVE heapify_from(_, _)
heapify_from(heap, i) ==
    IF i < 1 THEN heap ELSE heapify_from(siftup(heap, i), i - 1)

heapify(heap) == heapify_from(heap, Len(heap) \div 2)

\* heapq.heappop: the item returned, and the heap it leaves
heappop(heap) ==
    LET lastelt == heap[Len(heap)]
        rest == SubSeq(heap, 1, Len(heap) - 1)
    IN  IF rest # <<>>
        THEN [item |-> rest[1], heap |-> siftup([rest EXCEPT ![1] = lastelt], 1)]
        ELSE [item |-> lastelt, heap |-> rest]

\* heapq.heappush
heappush(heap, item) == siftdown(Append(heap, item), 1, Len(heap) + 1)

\* lines 26-32 of build_tree
\* lines 27-30: two pops, the merged node pushed
merge(first, second) ==
    heappush(second.heap,
             HuffmanNode(None, first.item.freq + second.item.freq,
                         <<first.item>>, <<second.item>>))

RECURSIVE merge_loop(_)
merge_loop(heap) ==
    IF Len(heap) > 1
    THEN merge_loop(merge(heappop(heap), heappop(heappop(heap).heap)))
    ELSE heap[1]

\* lines 19-21: frequency[char], the number of occurrences of char in text
frequency(text, char) == Cardinality({n \in 1..Len(text) : text[n] = char})

\* line 23: a node for every key of frequency, in order of insertion
RECURSIVE nodes(_, _)
nodes(text, keys) ==
    IF keys = <<>>
    THEN <<>>
    ELSE <<HuffmanNode(Head(keys), frequency(text, Head(keys)), <<>>, <<>>)>>
         \o nodes(text, Tail(keys))

\* build_tree: frequency keeps the characters in order of first occurrence
build_tree(text) == merge_loop(heapify(nodes(text, Dedupe(text))))

\* generate_codes
\* a dict is the list of its items <<key, value>> in order of insertion
\* d[key]
item(d, key) ==
    d[CHOOSE n \in 1..Len(d) : d[n][1] = key][2]

\* the items generate_codes adds to codes under node, in order of insertion:
\* line 40 for the node, then lines 42-43, then lines 44-45
RECURSIVE codes_under(_, _)
codes_under(node, current) ==
    (IF node.char # None THEN <<<<node.char, current>>>> ELSE <<>>)
    \o (IF node.left # <<>>
        THEN codes_under(node.left[1], Append(current, "0")) ELSE <<>>)
    \o (IF node.right # <<>>
        THEN codes_under(node.right[1], Append(current, "1")) ELSE <<>>)

\* generate_codes; every character is the char of one node of a tree
generate_codes(node, current, codes) == codes \o codes_under(node, current)

\* line 54: ''.join(codes[ch] for ch in text)
RECURSIVE join_codes(_, _)
join_codes(table, rest) ==
    IF rest = <<>>
    THEN <<>>
    ELSE item(table, Head(rest)) \o join_codes(table, Tail(rest))

\* encode_text: the pair (encoded_text, codes)
encode_text(text) ==
    [encoded_text |-> join_codes(generate_codes(build_tree(text), <<>>, <<>>), text),
     codes |-> generate_codes(build_tree(text), <<>>, <<>>)]

\* line 61: {v: k for k, v in codes.items()}; a later item replaces an earlier
\* one of the same code
RECURSIVE reverse(_)
reverse(codes) ==
    IF codes = <<>>
    THEN <<>>
    ELSE LET last == codes[Len(codes)]
             before == reverse(SubSeq(codes, 1, Len(codes) - 1))
         IN  IF \E n \in 1..Len(before) : before[n][1] = last[2]
             THEN [n \in 1..Len(before) |->
                      IF before[n][1] = last[2] THEN <<last[2], last[1]>>
                      ELSE before[n]]
             ELSE Append(before, <<last[2], last[1]>>)

\* lines 63-72 of decode_text
RECURSIVE decode_loop(_, _, _, _)
\* lines 68-70, buffer holding the bit just read
decode_bit(bits, reverse_codes, buffer, decoded) ==
    IF \E n \in 1..Len(reverse_codes) : reverse_codes[n][1] = buffer
    THEN decode_loop(bits, reverse_codes, <<>>,
                     Append(decoded, item(reverse_codes, buffer)))
    ELSE decode_loop(bits, reverse_codes, buffer, decoded)

decode_loop(bits, reverse_codes, buffer, decoded) ==
    IF bits = <<>>
    THEN decoded
    ELSE decode_bit(Tail(bits), reverse_codes, Append(buffer, Head(bits)), decoded)

\* decode_text
decode_text(encoded_text, codes) ==
    decode_loop(encoded_text, reverse(codes), <<>>, <<>>)

NoCodec ==
    [st |-> "idle", text |-> <<>>, encoded_text |-> <<>>, codes |-> <<>>,
     decoded |-> <<>>]

\* since_close and reconnected are history: the time since a consumer stopped
\* with its disconnect ignored, and whether its user came back within the grace
NoConn ==
    [pc |-> "idle", room |-> None, scope_user |-> None, user_name |-> None,
     user_color |-> None, room_is_locked |-> FALSE, online |-> <<>>, accepted |-> FALSE,
     close_code |-> 0, since_close |-> 0, reconnected |-> FALSE]

NoTask == [st |-> "none", room |-> None, left |-> 0]

\* Room(name=...): is_locked defaults to False, allowed_usernames to [],
\* allowed_users to the empty relation
NewRoom ==
    [is_locked |-> FALSE, allowed_usernames |-> <<>>, allowed_users |-> {}]

\* locked_with: room -> the allowlist a lock_room command wrote, while that row lives
\* joined:      deletion tasks during whose sleep a user was admitted to their room
\* closed:      (group, user) -> time since the user's connection closed, below the grace
\* dropped:     (group, user) of closed whose leave was carried out since that close
\* empty_for:   group -> time since its online list became empty, while it is empty
\* populated:   rooms a user was admitted to since the row was created
NoHist ==
    [locked_with |-> EmptyDict, joined |-> {}, closed |-> EmptyDict,
     dropped |-> {}, empty_for |-> EmptyDict, populated |-> {},
     received |-> <<>>, unseen |-> {}, seen |-> {}]

Init ==
    /\ db = EmptyDict
    /\ ROOM_USERS = EmptyDict
    /\ ROOM_TIMERS = EmptyDict
    /\ LAST_SEEN = EmptyDict
    /\ conn = [c \in Conns |-> NoConn]
    /\ groups = [g \in {group_name(r) : r \in Rooms} |-> {}]
    /\ inbox = [c \in Conns |-> <<>>]
    /\ tasks = [t \in TaskIds |-> NoTask]
    /\ used = [connects |-> 0, locks |-> 0, payloads |-> MaxPayloads, failures |-> 0]
    /\ hist = NoHist
    /\ REACTIONS = EmptyDict
    /\ sent = {}
    /\ codec = NoCodec

\* --------------------------------------------------------------- cb/views.py
\* create_room: Room.objects.get_or_create(name=room_name, ...)
create_room(r) ==
    /\ r \notin DOMAIN db
    /\ db' = Put(db, r, NewRoom)
    /\ UNCHANGED <<ROOM_USERS, ROOM_TIMERS, LAST_SEEN, conn, groups, inbox, tasks,
                   used, hist>>
    /\ sent' = {}
    /\ UNCHANGED <<REACTIONS, codec>>

\* ------------------------------------------------------------ channel layer
Rejected == {"unauthenticated", "no_room", "forbidden"}

\* a consumer that still reads its channel: it has not stopped and is not in
\* its disconnect handler, after which it stops
Reading(c) ==
    conn[c].pc \notin ({"idle", "gone", "send_user_leave", "group_discard", "crashed"}
                        \cup Rejected)

Receivers(g) == {c \in groups[g] : Reading(c)}

CanSend(g) == \A c \in Receivers(g) : Len(inbox[c]) < MaxInbox

\* a group_send whose event overtakes the events waiting on a channel
group_send_overtaking(ib, g, ev) ==
    [c \in Conns |-> IF c \in Receivers(g) THEN <<ev>> \o ib[c] ELSE ib[c]]

\* channel_layer.group_send(g, ev), applied to the inboxes ib
group_send(ib, g, ev) ==
    [c \in Conns |-> IF c \in Receivers(g) THEN Append(ib[c], ev) ELSE ib[c]]

\* ------------------------------------------------------- database helpers
\* add_allowed_username, on an existing row
add_allowed_username(row, username) ==
    LET named == IF Contains(row.allowed_usernames, username)
                 THEN row
                 ELSE [row EXCEPT !.allowed_usernames =
                          Dedupe(Append(row.allowed_usernames, username))]
    IN  IF username \in Accounts
        THEN [named EXCEPT !.allowed_users = @ \cup {username}]
        ELSE named

\* user_is_allowed
user_is_allowed(r, username) ==
    IF r \in DOMAIN db THEN Contains(db[r].allowed_usernames, username) ELSE FALSE

\* lock_room_with_usernames storing the snapshot alone
lock_room_with_usernames_overwriting(row, usernames) ==
    LET normalized == [i \in 1..Len(usernames) |-> normalize(usernames[i])]
    IN  [row EXCEPT !.allowed_usernames = Dedupe(normalized),
                    !.is_locked = TRUE,
                    !.allowed_users = @ \cup (ToSet(normalized) \cap Accounts)]

\* lock_room_with_usernames, on an existing row
lock_room_with_usernames(row, usernames) ==
    LET normalized == [i \in 1..Len(usernames) |-> normalize(usernames[i])]
    IN  [row EXCEPT !.allowed_usernames = Dedupe(row.allowed_usernames \o normalized),
                    !.is_locked = TRUE,
                    !.allowed_users = @ \cup (ToSet(normalized) \cap Accounts)]

\* sync_allowed_user_m2m, on an existing row
sync_allowed_user_m2m(row) ==
    [row EXCEPT !.allowed_users =
        @ \cup ({normalize(u) : u \in ToSet(row.allowed_usernames)} \cap Accounts)]

\* ------------------------------------------------------------ deletion tasks
Referenced(t) == \E g \in DOMAIN ROOM_TIMERS : ROOM_TIMERS[g] = t

FreeTasks == {t \in TaskIds : tasks[t].st = "none"}

\* the table drops its reference to task t: a finished task is forgotten
Unref(tk, t) == IF tk[t].st = "done" THEN [tk EXCEPT ![t] = NoTask] ELSE tk

\* Task.cancel(): a sleeping task ends; a task inside the delete call is
\* interrupted, the call itself may still run; a finished task is unaffected
cancel(tk, t) ==
    [tk EXCEPT ![t] = IF tk[t].st = "deleting"
                      THEN [tk[t] EXCEPT !.st = "cancelled"]
                      ELSE NoTask]

\* asyncio.create_task(self.delete_room_after_timeout()), in slot t
create_task(tk, t, r) ==
    [tk EXCEPT ![t] = [st |-> "sleeping", room |-> r, left |-> DELETE_TIMEOUT]]

\* tasks that have not ended
Running(tk) == {t \in TaskIds : tk[t].st \in {"sleeping", "deleting", "cancelled"}}

\* ROOM_USERS.get(g) is falsy
IsEmpty(ru, g) == Get(ru, g, <<>>) = <<>>

\* --------------------------------------------------------- ChatConsumer.connect
\* lines 168-183 without the membership test of line 177
\* line 170: random.choice(colours). The colour is read by the chat branch of
\* receive alone: where no payload can arrive any more the draw is reduced to
\* one colour
Palette ==
    IF used.payloads < MaxPayloads THEN Colors ELSE {CHOOSE color \in Colors : TRUE}

\* the members subscribed to group g when connection c is admitted, each owed
\* the notice of its join; kept while a payload, and so a chat event of c, can
\* still follow
Owed(c, g) ==
    IF used.payloads < MaxPayloads THEN {<<m, c>> : m \in Receivers(g)} ELSE {}

Admit_appending(c, username) ==
    LET r == conn[c].room
        g == group_name(r)
        users == Get(ROOM_USERS, g, <<>>)
    IN  /\ \E color \in Palette :
              conn' = [d \in Conns |->
                      IF d = c
                      THEN [conn[c] EXCEPT !.user_name = username, !.pc = "group_add",
                                           !.user_color = color,
                                           !.room_is_locked = FALSE]
                      ELSE IF /\ conn[d].pc = "gone" /\ conn[d].room = r
                              /\ conn[d].user_name = username
                              /\ conn[d].since_close < REFRESH_GRACE
                      THEN [conn[d] EXCEPT !.reconnected = TRUE]
                      ELSE conn[d]]
        /\ LAST_SEEN' = Put(LAST_SEEN, <<g, username>>, 0)
        /\ ROOM_USERS' = Put(ROOM_USERS, g, Append(users, username))
        /\ IF g \in DOMAIN ROOM_TIMERS
           THEN /\ tasks' = cancel(tasks, ROOM_TIMERS[g])
                /\ ROOM_TIMERS' = Pop(ROOM_TIMERS, g)
           ELSE UNCHANGED <<tasks, ROOM_TIMERS>>
        /\ hist' = [hist EXCEPT
                      !.joined = (@ \cup {t \in TaskIds : /\ tasks[t].st = "sleeping"
                                                          /\ tasks[t].room = r
                                                          /\ tasks[t].left > 0})
                                 \cap Running(tasks'),
                      !.closed = Pop(@, <<g, username>>),
                      !.dropped = @ \ {<<g, username>>},
                      !.empty_for = Pop(@, g),
                      !.populated = IF r \in DOMAIN db THEN @ \cup {r} ELSE @,
                      !.unseen = {k \in @ : k[1] # c /\ k[2] # c}
                                 \cup Owed(c, g),
                      !.seen = {k \in @ : k[1] # c /\ k[2] # c}]

\* lines 168-183: instance attributes, LAST_SEEN, online list, timer cancellation
Admit(c, username) ==
    LET r == conn[c].room
        g == group_name(r)
        users == Get(ROOM_USERS, g, <<>>)
    IN  /\ \E color \in Palette :
              conn' = [d \in Conns |->
                      IF d = c
                      THEN [conn[c] EXCEPT !.user_name = username, !.pc = "group_add",
                                           !.user_color = color,
                                           !.room_is_locked = FALSE]
                      ELSE IF /\ conn[d].pc = "gone" /\ conn[d].room = r
                              /\ conn[d].user_name = username
                              /\ conn[d].since_close < REFRESH_GRACE
                      THEN [conn[d] EXCEPT !.reconnected = TRUE]
                      ELSE conn[d]]
        /\ LAST_SEEN' = Put(LAST_SEEN, <<g, username>>, 0)
        /\ ROOM_USERS' = Put(ROOM_USERS, g,
                             IF Contains(users, username) THEN users
                             ELSE Append(users, username))
        /\ IF g \in DOMAIN ROOM_TIMERS
           THEN /\ tasks' = cancel(tasks, ROOM_TIMERS[g])
                /\ ROOM_TIMERS' = Pop(ROOM_TIMERS, g)
           ELSE UNCHANGED <<tasks, ROOM_TIMERS>>
        /\ hist' = [hist EXCEPT
                      !.joined = (@ \cup {t \in TaskIds : /\ tasks[t].st = "sleeping"
                                                          /\ tasks[t].room = r
                                                          /\ tasks[t].left > 0})
                                 \cap Running(tasks'),
                      !.closed = Pop(@, <<g, username>>),
                      !.dropped = @ \ {<<g, username>>},
                      !.empty_for = Pop(@, g),
                      !.populated = IF r \in DOMAIN db THEN @ \cup {r} ELSE @,
                      !.unseen = {k \in @ : k[1] # c /\ k[2] # c}
                                 \cup Owed(c, g),
                      !.seen = {k \in @ : k[1] # c /\ k[2] # c}]

\* self.close(code): the handshake is refused
Reject(c, code, why) ==
    conn' = [conn EXCEPT ![c].pc = why, ![c].close_code = code,
                         ![c].room_is_locked = FALSE]

\* a websocket opens on ws/chat/<room_name>/; lines 129-140, up to get_room
connect(c, r, u) ==
    /\ conn[c].pc = "idle"
    /\ \A d \in Conns : d < c => conn[d].pc # "idle"
    /\ used.connects < MaxConnects
    /\ used' = [used EXCEPT !.connects = @ + 1]
    /\ LET new == [NoConn EXCEPT !.room = r, !.scope_user = u]
       IN  IF u = Anonymous
           THEN conn' = [conn EXCEPT ![c] = [new EXCEPT !.pc = "unauthenticated",
                                               !.close_code = CLOSE_UNAUTHENTICATED]]
           ELSE IF r \in DOMAIN db
           THEN conn' = [conn EXCEPT ![c] = [new EXCEPT !.pc = "refresh"]]
           ELSE conn' = [conn EXCEPT ![c] = [new EXCEPT !.pc = "no_room",
                                               !.close_code = CLOSE_NO_ROOM]]
    /\ UNCHANGED <<db, ROOM_USERS, ROOM_TIMERS, LAST_SEEN, groups, inbox, tasks, hist>>
    /\ sent' = {}
    /\ UNCHANGED <<REACTIONS, codec>>

\* line 143: room.refresh_from_db(); raises DoesNotExist when the row is gone
connect_refresh(c) ==
    /\ conn[c].pc = "refresh"
    /\ IF conn[c].room \in DOMAIN db
       THEN conn' = [conn EXCEPT ![c].pc = "user_is_allowed",
                                 ![c].room_is_locked = db[conn[c].room].is_locked]
       ELSE conn' = [conn EXCEPT ![c] = NoConn]
    /\ UNCHANGED <<db, ROOM_USERS, ROOM_TIMERS, LAST_SEEN, groups, inbox, tasks,
                   used, hist>>
    /\ sent' = {}
    /\ UNCHANGED <<REACTIONS, codec>>

\* lines 146-162 with the LAST_SEEN stamp of line 173 moved ahead of the gate
connect_user_is_allowed_stamped(c) ==
    /\ conn[c].pc = "user_is_allowed"
    /\ LET username == normalize(conn[c].scope_user)
           is_allowed == user_is_allowed(conn[c].room, username)
       IN  IF conn[c].room_is_locked /\ ~ is_allowed
           THEN /\ Reject(c, CLOSE_LOCKED, "forbidden")
                /\ LAST_SEEN' = Put(LAST_SEEN,
                                    <<group_name(conn[c].room), username>>, 0)
                /\ UNCHANGED <<ROOM_USERS, ROOM_TIMERS, tasks, hist>>
           ELSE IF ~ is_allowed
           THEN /\ conn' = [conn EXCEPT ![c].pc = "add_allowed_username"]
                /\ UNCHANGED <<ROOM_USERS, ROOM_TIMERS, LAST_SEEN, tasks, hist>>
           ELSE Admit(c, username)
    /\ UNCHANGED <<db, groups, inbox, used>>
    /\ sent' = {}
    /\ UNCHANGED <<REACTIONS, codec>>

\* lines 146-162, and 168-183 when the user is already allowed
connect_user_is_allowed(c) ==
    /\ conn[c].pc = "user_is_allowed"
    /\ LET username == normalize(conn[c].scope_user)
           is_allowed == user_is_allowed(conn[c].room, username)
       IN  IF conn[c].room_is_locked /\ ~ is_allowed
           THEN /\ Reject(c, CLOSE_LOCKED, "forbidden")
                /\ UNCHANGED <<ROOM_USERS, ROOM_TIMERS, LAST_SEEN, tasks, hist>>
           ELSE IF ~ is_allowed
           THEN /\ conn' = [conn EXCEPT ![c].pc = "add_allowed_username"]
                /\ UNCHANGED <<ROOM_USERS, ROOM_TIMERS, LAST_SEEN, tasks, hist>>
           ELSE Admit(c, username)
    /\ UNCHANGED <<db, groups, inbox, used>>
    /\ sent' = {}
    /\ UNCHANGED <<REACTIONS, codec>>

\* line 163: add_allowed_username; Room.objects.get raises when the row is gone
connect_add_allowed_username(c) ==
    /\ conn[c].pc = "add_allowed_username"
    /\ LET r == conn[c].room
       IN  IF r \in DOMAIN db
           THEN /\ db' = [db EXCEPT ![r] =
                            add_allowed_username(db[r], normalize(conn[c].scope_user))]
                /\ conn' = [conn EXCEPT ![c].pc = "sync_allowed_user_m2m"]
           ELSE /\ conn' = [conn EXCEPT ![c] = NoConn]
                /\ UNCHANGED db
    /\ UNCHANGED <<ROOM_USERS, ROOM_TIMERS, LAST_SEEN, groups, inbox, tasks, used, hist>>
    /\ sent' = {}
    /\ UNCHANGED <<REACTIONS, codec>>

\* line 165: sync_allowed_user_m2m, then lines 168-183
connect_sync_allowed_user_m2m(c) ==
    /\ conn[c].pc = "sync_allowed_user_m2m"
    /\ LET r == conn[c].room
       IN  db' = IF r \in DOMAIN db
                 THEN [db EXCEPT ![r] = sync_allowed_user_m2m(db[r])]
                 ELSE db
    /\ Admit(c, normalize(conn[c].scope_user))
    /\ UNCHANGED <<groups, inbox, used>>
    /\ sent' = {}
    /\ UNCHANGED <<REACTIONS, codec>>

\* lines 186-187: group_add, accept
connect_group_add(c) ==
    /\ conn[c].pc = "group_add"
    /\ groups' = [groups EXCEPT ![group_name(conn[c].room)] = @ \cup {c}]
    /\ conn' = [conn EXCEPT ![c].pc = "send_user_join", ![c].accepted = TRUE]
    /\ UNCHANGED <<db, ROOM_USERS, ROOM_TIMERS, LAST_SEEN, inbox, tasks, used, hist>>
    /\ sent' = {}
    /\ UNCHANGED <<REACTIONS, codec>>

\* line 190: group_send user_join
connect_send_user_join(c) ==
    /\ conn[c].pc = "send_user_join"
    /\ CanSend(group_name(conn[c].room))
    /\ inbox' = group_send(inbox, group_name(conn[c].room),
                           [type |-> "user_join", user |-> conn[c].user_name,
                            src |-> c])
    /\ conn' = [conn EXCEPT ![c].pc = "active"]
    /\ UNCHANGED <<db, ROOM_USERS, ROOM_TIMERS, LAST_SEEN, groups, tasks, used, hist>>
    /\ sent' = {}
    /\ UNCHANGED <<REACTIONS, codec>>

\* ------------------------------------------------------ ChatConsumer.disconnect
\* lines 193-204: the websocket closed
disconnect(c) ==
    /\ conn[c].pc \in {"active"} \cup Rejected
    /\ LET g == group_name(conn[c].room)
           u == conn[c].user_name
           k == <<g, u>>
           listed == g \in DOMAIN ROOM_USERS /\ Contains(ROOM_USERS[g], u)
       IN  IF u = None
           THEN /\ conn' = [conn EXCEPT ![c] = NoConn]
                /\ UNCHANGED <<ROOM_USERS, hist>>
           ELSE IF Get(LAST_SEEN, k, REFRESH_GRACE) < REFRESH_GRACE
           THEN /\ conn' = [conn EXCEPT ![c].pc = "gone"]
                /\ UNCHANGED ROOM_USERS
                /\ hist' = [hist EXCEPT !.closed = Put(@, k, 0),
                                        !.dropped = @ \ {k},
                                        !.unseen = {p \in @ : p[1] # c},
                                        !.seen = {p \in @ : p[1] # c}]
           ELSE /\ conn' = [conn EXCEPT ![c].pc = "send_user_leave"]
                /\ ROOM_USERS' = IF listed
                                 THEN [ROOM_USERS EXCEPT ![g] = Remove(@, u)]
                                 ELSE ROOM_USERS
                /\ hist' = [hist EXCEPT
                              !.closed = Put(@, k, 0),
                              !.dropped = IF listed THEN @ \cup {k} ELSE @ \ {k},
                              !.empty_for = IF listed /\ Len(ROOM_USERS[g]) = 1
                                            THEN Put(@, g, 0) ELSE @,
                              !.unseen = {p \in @ : p[1] # c},
                              !.seen = {p \in @ : p[1] # c}]
    /\ inbox' = [inbox EXCEPT ![c] = <<>>]
    /\ UNCHANGED <<db, ROOM_TIMERS, LAST_SEEN, groups, tasks, used>>
    /\ sent' = {}
    /\ UNCHANGED <<REACTIONS, codec>>

\* line 207: group_send user_leave
disconnect_send_user_leave(c) ==
    /\ conn[c].pc = "send_user_leave"
    /\ CanSend(group_name(conn[c].room))
    /\ inbox' = group_send(inbox, group_name(conn[c].room),
                           [type |-> "user_leave", user |-> conn[c].user_name])
    /\ conn' = [conn EXCEPT ![c].pc = "group_discard"]
    /\ UNCHANGED <<db, ROOM_USERS, ROOM_TIMERS, LAST_SEEN, groups, tasks, used, hist>>
    /\ sent' = {}
    /\ UNCHANGED <<REACTIONS, codec>>

\* lines 208-212: group_discard, then the deletion task when the room is empty
disconnect_group_discard(c) ==
    /\ conn[c].pc = "group_discard"
    /\ LET g == group_name(conn[c].room)
       IN  /\ groups' = [groups EXCEPT ![g] = @ \ {c}]
           /\ IF IsEmpty(ROOM_USERS, g)
              THEN /\ FreeTasks # {}
                   /\ LET t == CHOOSE x \in FreeTasks : \A y \in FreeTasks : x <= y
                          tk == IF g \in DOMAIN ROOM_TIMERS
                                THEN Unref(tasks, ROOM_TIMERS[g]) ELSE tasks
                      IN  /\ tasks' = create_task(tk, t, conn[c].room)
                          /\ ROOM_TIMERS' = Put(ROOM_TIMERS, g, t)
              ELSE UNCHANGED <<tasks, ROOM_TIMERS>>
    /\ conn' = [conn EXCEPT ![c] = NoConn]
    /\ UNCHANGED <<db, ROOM_USERS, LAST_SEEN, inbox, used, hist>>
    /\ sent' = {}
    /\ UNCHANGED <<REACTIONS, codec>>

\* ------------------------------------------ ChatConsumer.delete_room_after_timeout
\* lines 215-216: the sleep is over
delete_room_after_timeout(t) ==
    /\ tasks[t].st = "sleeping"
    /\ tasks[t].left = 0
    /\ tasks' = IF IsEmpty(ROOM_USERS, group_name(tasks[t].room))
                THEN [tasks EXCEPT ![t].st = "deleting"]
                ELSE [tasks EXCEPT ![t] = IF Referenced(t)
                                          THEN [NoTask EXCEPT !.st = "done"]
                                          ELSE NoTask]
    /\ hist' = [hist EXCEPT !.joined = @ \cap Running(tasks')]
    /\ UNCHANGED <<db, ROOM_USERS, ROOM_TIMERS, LAST_SEEN, conn, groups, inbox, used>>
    /\ sent' = {}
    /\ UNCHANGED <<REACTIONS, codec>>

\* the row of room r is deleted
Forget(h, r) ==
    [h EXCEPT !.locked_with = Pop(@, r), !.populated = @ \ {r}]

\* lines 218-222: Room.objects.filter(name).delete(), then the two pops
delete_room_delete(t) ==
    /\ tasks[t].st = "deleting"
    /\ LET r == tasks[t].room
           g == group_name(r)
           tk == IF g \in DOMAIN ROOM_TIMERS
                 THEN Unref(tasks, ROOM_TIMERS[g]) ELSE tasks
       IN  /\ db' = Pop(db, r)
           /\ ROOM_USERS' = Pop(ROOM_USERS, g)
           /\ ROOM_TIMERS' = Pop(ROOM_TIMERS, g)
           /\ tasks' = [tk EXCEPT ![t] = NoTask]
           /\ hist' = [Forget(hist, r) EXCEPT
                         !.joined = @ \cap Running(tasks'),
                         !.empty_for = IF IsEmpty(ROOM_USERS, g) THEN @
                                       ELSE Put(@, g, 0)]
    /\ UNCHANGED <<LAST_SEEN, conn, groups, inbox, used>>
    /\ sent' = {}
    /\ UNCHANGED <<REACTIONS, codec>>

\* line 218 raises, the store being unavailable: the task ends with the
\* exception and lines 219-222 are not reached
delete_room_failed(t) ==
    /\ tasks[t].st = "deleting"
    /\ used.failures < MaxFailures
    /\ used' = [used EXCEPT !.failures = @ + 1]
    /\ tasks' = [tasks EXCEPT ![t] = IF Referenced(t)
                                     THEN [NoTask EXCEPT !.st = "done"]
                                     ELSE NoTask]
    /\ hist' = [hist EXCEPT !.joined = @ \cap Running(tasks')]
    /\ UNCHANGED <<db, ROOM_USERS, ROOM_TIMERS, LAST_SEEN, conn, groups, inbox>>
    /\ sent' = {}
    /\ UNCHANGED <<REACTIONS, codec>>

\* a task cancelled inside the delete call: the call had started and completes,
\* or it had not and never runs; lines 219-222 are not reached
delete_room_cancelled(t, ran) ==
    /\ tasks[t].st = "cancelled"
    /\ db' = IF ran THEN Pop(db, tasks[t].room) ELSE db
    /\ tasks' = [tasks EXCEPT ![t] = NoTask]
    /\ hist' = [(IF ran THEN Forget(hist, tasks[t].room) ELSE hist) EXCEPT
                  !.joined = @ \cap Running(tasks')]
    /\ UNCHANGED <<ROOM_USERS, ROOM_TIMERS, LAST_SEEN, conn, groups, inbox, used>>
    /\ sent' = {}
    /\ UNCHANGED <<REACTIONS, codec>>

\* ---------------------------------------------------------- ChatConsumer.receive
\* lines 227-237: a payload with command lock_room
receive_lock_room(c) ==
    /\ conn[c].pc = "active"
    /\ used.locks < MaxLocks
    /\ used' = [used EXCEPT !.locks = @ + 1]
    /\ conn' = [conn EXCEPT ![c].pc = "lock_room_with_usernames",
                   ![c].online = Get(ROOM_USERS, group_name(conn[c].room), <<>>)]
    /\ UNCHANGED <<db, ROOM_USERS, ROOM_TIMERS, LAST_SEEN, groups, inbox, tasks, hist>>
    /\ sent' = {}
    /\ UNCHANGED <<REACTIONS, codec>>

\* line 240: lock_room_with_usernames
receive_lock_room_with_usernames(c) ==
    /\ conn[c].pc = "lock_room_with_usernames"
    /\ LET r == conn[c].room
       IN  IF r \in DOMAIN db
           THEN /\ db' = [db EXCEPT ![r] = lock_room_with_usernames(db[r], conn[c].online)]
                /\ conn' = [conn EXCEPT ![c].pc = "lock_sync_allowed_user_m2m"]
                /\ hist' = [hist EXCEPT !.locked_with =
                              Put(@, r, ToSet(db'[r].allowed_usernames))]
           ELSE /\ conn' = [conn EXCEPT ![c].pc = "active", ![c].online = <<>>]
                /\ UNCHANGED <<db, hist>>
    /\ UNCHANGED <<ROOM_USERS, ROOM_TIMERS, LAST_SEEN, groups, inbox, tasks, used>>
    /\ sent' = {}
    /\ UNCHANGED <<REACTIONS, codec>>

\* line 243: sync_allowed_user_m2m
receive_sync_allowed_user_m2m(c) ==
    /\ conn[c].pc = "lock_sync_allowed_user_m2m"
    /\ LET r == conn[c].room
       IN  db' = IF r \in DOMAIN db
                 THEN [db EXCEPT ![r] = sync_allowed_user_m2m(db[r])]
                 ELSE db
    /\ conn' = [conn EXCEPT ![c].pc = "lock_notify"]
    /\ UNCHANGED <<ROOM_USERS, ROOM_TIMERS, LAST_SEEN, groups, inbox, tasks, used, hist>>
    /\ sent' = {}
    /\ UNCHANGED <<REACTIONS, codec>>

\* lines 246-253: group_send system_message
receive_lock_notify(c) ==
    /\ conn[c].pc = "lock_notify"
    /\ CanSend(group_name(conn[c].room))
    /\ inbox' = group_send(inbox, group_name(conn[c].room),
                   [type |-> "system_message",
                    message |-> [i \in 1..Len(conn[c].online) |->
                                    normalize(conn[c].online[i])]])
    /\ conn' = [conn EXCEPT ![c].pc = "active", ![c].online = <<>>]
    /\ UNCHANGED <<db, ROOM_USERS, ROOM_TIMERS, LAST_SEEN, groups, tasks, used, hist>>
    /\ sent' = {}
    /\ UNCHANGED <<REACTIONS, codec>>

\* ------------------------------------------------------------- event handlers
\* ------------------------------------------------- receive: chat (225-272)
Space == " "

RECURSIVE lstrip(_)
RECURSIVE rstrip(_)
\* str.strip()
lstrip(s) == IF s # <<>> /\ Head(s) = Space THEN lstrip(Tail(s)) ELSE s

rstrip(s) ==
    IF s # <<>> /\ s[Len(s)] = Space THEN rstrip(SubSeq(s, 1, Len(s) - 1)) ELSE s

strip(s) == rstrip(lstrip(s))

\* a JSON string value, and a JSON value that is no string
Str(s) == [isstr |-> TRUE, val |-> s]

Number == [isstr |-> FALSE, val |-> <<>>]

\* the text_data a client sends: what json.loads makes of it, and the
\* object's items where it is an object
Payloads ==
    {[loads |-> "JSONDecodeError", data |-> EmptyDict],
     [loads |-> "list", data |-> EmptyDict],
     [loads |-> "dict", data |-> [message |-> Number]],
     [loads |-> "dict", data |-> [message |-> Str(<<"a", "b">>)]],
     [loads |-> "dict", data |-> [message |-> Str(<<Space, "a">>)]],
     [loads |-> "dict", data |-> [message |-> Str(<<Space>>)]],
     [loads |-> "dict", data |-> [type |-> "reaction", reaction |-> "like"]],
     [loads |-> "dict", data |-> [type |-> "reaction", reaction |-> "dislike"]]}

\* lines 227-228 raise: json.loads on text that is no JSON, .get on a value
\* that is no object, .strip on a message that is no string
raises(p) ==
    \/ p.loads # "dict"
    \/ "message" \in DOMAIN p.data /\ ~p.data.message.isstr

\* line 228: data.get("message", "").strip()
message_of(p) ==
    IF "message" \in DOMAIN p.data THEN strip(p.data.message.val) ELSE <<>>

\* lines 227-228 raise: the exception leaves the consumer, which stops
\* reading; its disconnect handler does not run
receive_malformed(c, p) ==
    /\ conn[c].pc = "active"
    /\ used.payloads < MaxPayloads
    /\ raises(p)
    /\ used' = [used EXCEPT !.payloads = @ + 1]
    /\ hist' = [hist EXCEPT !.received = <<c, p>>]
    /\ conn' = [conn EXCEPT ![c].pc = "crashed"]
    /\ sent' = {}
    /\ UNCHANGED <<db, ROOM_USERS, ROOM_TIMERS, LAST_SEEN, groups, inbox, tasks,
                   REACTIONS, codec>>

\* lines 256-257: no command and an empty message
receive_ignored(c, p) ==
    /\ conn[c].pc = "active"
    /\ used.payloads < MaxPayloads
    /\ ~raises(p)
    /\ "command" \notin DOMAIN p.data
    /\ message_of(p) = <<>>
    /\ used' = [used EXCEPT !.payloads = @ + 1]
    /\ hist' = [hist EXCEPT !.received = <<c, p>>]
    /\ sent' = {}
    /\ UNCHANGED <<db, ROOM_USERS, ROOM_TIMERS, LAST_SEEN, conn, groups, inbox, tasks,
                   REACTIONS, codec>>

\* the event of lines 265-271; src, the sending connection, is history
chat_event(c, message) ==
    [type |-> "chat_message", message |-> encode_text(message).encoded_text,
     codes |-> encode_text(message).codes, user |-> conn[c].user_name,
     color |-> conn[c].user_color, src |-> c]

\* lines 260-272: encode_text, group_send
receive_chat(c, p) ==
    /\ conn[c].pc = "active"
    /\ used.payloads < MaxPayloads
    /\ ~raises(p)
    /\ "command" \notin DOMAIN p.data
    /\ message_of(p) # <<>>
    /\ CanSend(group_name(conn[c].room))
    /\ used' = [used EXCEPT !.payloads = @ + 1]
    /\ hist' = [hist EXCEPT !.received = <<c, p>>]
    /\ inbox' = group_send(inbox, group_name(conn[c].room), chat_event(c, message_of(p)))
    /\ sent' = {}
    /\ UNCHANGED <<db, ROOM_USERS, ROOM_TIMERS, LAST_SEEN, conn, groups, tasks,
                   REACTIONS, codec>>

\* the text the handler of event ev passes to self.send, as a dict
frame(ev) ==
    CASE ev.type = "chat_message" ->
            [type |-> "chat", message |-> decode_text(ev.message, ev.codes),
             user |-> ev.user, color |-> ev.color]
      [] ev.type = "system_message" -> ev
      [] ev.type = "user_join" ->
            [type |-> "system", user |-> "System", message |-> <<ev.user, "joined">>]
      [] ev.type = "user_leave" ->
            [type |-> "system", user |-> "System", message |-> <<ev.user, "left">>]
      [] ev.type = "broadcast_user_list" ->
            [type |-> "user_list", users |-> ev.users]

\* chat_message, system_message, broadcast_user_list, and user_join and
\* user_leave up to the sleep (lines 274-313): the head of the channel is
\* handled; src, the connection that sent the event, is history
handle_event(c) ==
    /\ conn[c].pc = "active"
    /\ inbox[c] # <<>>
    /\ inbox' = [inbox EXCEPT ![c] = Tail(@)]
    /\ sent' = {[to |-> c, data |-> frame(Head(inbox[c]))]}
    /\ LET ev == Head(inbox[c])
           k == <<group_name(conn[c].room), ev.user>>
       IN  IF ev.type \in {"user_join", "user_leave"}
           THEN /\ conn' = [conn EXCEPT ![c].pc = "update_all_user_lists"]
                /\ hist' = IF ev.type = "user_leave"
                           THEN IF k \in DOMAIN hist.closed
                                THEN [hist EXCEPT !.dropped = @ \cup {k}]
                                ELSE hist
                           ELSE [hist EXCEPT !.unseen = @ \ {<<c, ev.src>>},
                                             !.seen = @ \cup (hist.unseen \cap {<<c, ev.src>>})]
           ELSE UNCHANGED <<conn, hist>>
    /\ UNCHANGED <<db, ROOM_USERS, ROOM_TIMERS, LAST_SEEN, groups, tasks, used>>
    /\ UNCHANGED <<REACTIONS, codec>>

\* lines 308-310: update_all_user_lists
update_all_user_lists(c) ==
    /\ conn[c].pc = "update_all_user_lists"
    /\ CanSend(group_name(conn[c].room))
    /\ inbox' = group_send(inbox, group_name(conn[c].room),
                   [type |-> "broadcast_user_list",
                    users |-> Get(ROOM_USERS, group_name(conn[c].room), <<>>)])
    /\ conn' = [conn EXCEPT ![c].pc = "active"]
    /\ UNCHANGED <<db, ROOM_USERS, ROOM_TIMERS, LAST_SEEN, groups, tasks, used, hist>>
    /\ sent' = {}
    /\ UNCHANGED <<REACTIONS, codec>>

\* ----------------------------------------------------------------------- time
\* no handler is inside an await
Quiet ==
    /\ \A c \in Conns : conn[c].pc \in ({"idle", "active", "gone"} \cup Rejected)
    /\ \A t \in TaskIds : tasks[t].st \in {"none", "sleeping", "done"}

\* d[k] + 1 for every key, up to top
Older(d, top) == [k \in DOMAIN d |-> IF d[k] < top THEN d[k] + 1 ELSE d[k]]

\* one time unit passes; a sleep that is over resumes first
Tick ==
    /\ Quiet
    /\ \A t \in TaskIds : tasks[t].st = "sleeping" => tasks[t].left > 0
    /\ tasks' = [t \in TaskIds |->
                   IF tasks[t].st = "sleeping"
                   THEN [tasks[t] EXCEPT !.left = @ - 1] ELSE tasks[t]]
    /\ LAST_SEEN' = Older(LAST_SEEN, REFRESH_GRACE)
    /\ conn' = [c \in Conns |->
                  IF conn[c].pc = "gone" /\ conn[c].since_close < REFRESH_GRACE
                  THEN [conn[c] EXCEPT !.since_close = @ + 1] ELSE conn[c]]
    /\ LET young == {k \in DOMAIN hist.closed : hist.closed[k] + 1 < REFRESH_GRACE}
       IN  hist' = [hist EXCEPT
                      !.closed = [k \in young |-> hist.closed[k] + 1],
                      !.dropped = @ \cap young,
                      !.empty_for = Older(@, DELETE_TIMEOUT)]
    /\ UNCHANGED <<db, ROOM_USERS, ROOM_TIMERS, groups, inbox, used>>
    /\ sent' = {}
    /\ UNCHANGED <<REACTIONS, codec>>

Next ==
    \/ \E r \in Rooms : create_room(r)
    \/ \E c \in Conns, r \in Rooms, u \in ScopeUsers : connect(c, r, u)
    \/ \E c \in Conns : connect_refresh(c)
    \/ \E c \in Conns : connect_user_is_allowed(c)
    \/ \E c \in Conns : connect_add_allowed_username(c)
    \/ \E c \in Conns : connect_sync_allowed_user_m2m(c)
    \/ \E c \in Conns : connect_group_add(c)
    \/ \E c \in Conns : connect_send_user_join(c)
    \/ \E c \in Conns : disconnect(c)
    \/ \E c \in Conns : disconnect_send_user_leave(c)
    \/ \E c \in Conns : disconnect_group_discard(c)
    \/ \E t \in TaskIds : delete_room_after_timeout(t)
    \/ \E t \in TaskIds : delete_room_delete(t)
    \/ \E t \in TaskIds : delete_room_failed(t)
    \/ \E t \in TaskIds, ran \in BOOLEAN : delete_room_cancelled(t, ran)
    \/ \E c \in Conns : receive_lock_room(c)
    \/ \E c \in Conns : receive_lock_room_with_usernames(c)
    \/ \E c \in Conns : receive_sync_allowed_user_m2m(c)
    \/ \E c \in Conns : receive_lock_notify(c)
    \/ \E c \in Conns : handle_event(c)
    \/ \E c \in Conns : update_all_user_lists(c)
    \/ Tick

Spec == Init /\ [][Next]_vars

\* ------------------------------------------------ chat without the clock
\* the connections join and exchange payloads; nobody leaves and no time passes
InitChat ==
    /\ db = EmptyDict
    /\ ROOM_USERS = EmptyDict
    /\ ROOM_TIMERS = EmptyDict
    /\ LAST_SEEN = EmptyDict
    /\ conn = [c \in Conns |-> NoConn]
    /\ groups = [g \in {group_name(r) : r \in Rooms} |-> {}]
    /\ inbox = [c \in Conns |-> <<>>]
    /\ tasks = [t \in TaskIds |-> NoTask]
    /\ used = [connects |-> 0, locks |-> 0, payloads |-> 0, failures |-> 0]
    /\ hist = NoHist
    /\ REACTIONS = EmptyDict
    /\ sent = {}
    /\ codec = NoCodec

NextChat ==
    \/ \E r \in Rooms : create_room(r)
    \/ \E c \in Conns, r \in Rooms, u \in ScopeUsers : connect(c, r, u)
    \/ \E c \in Conns : connect_refresh(c)
    \/ \E c \in Conns : connect_user_is_allowed(c)
    \/ \E c \in Conns : connect_add_allowed_username(c)
    \/ \E c \in Conns : connect_sync_allowed_user_m2m(c)
    \/ \E c \in Conns : connect_group_add(c)
    \/ \E c \in Conns : connect_send_user_join(c)
    \/ \E c \in Conns, p \in Payloads : receive_malformed(c, p)
    \/ \E c \in Conns, p \in Payloads : receive_ignored(c, p)
    \/ \E c \in Conns, p \in Payloads : receive_chat(c, p)
    \/ \E c \in Conns : handle_event(c)
    \/ \E c \in Conns : update_all_user_lists(c)

SpecChat == InitChat /\ [][NextChat]_vars

\* ------------------------------------------------------- the codec on its own
\* every text of the bound is given to encode_text
InitCodec ==
    /\ db = EmptyDict
    /\ ROOM_USERS = EmptyDict
    /\ ROOM_TIMERS = EmptyDict
    /\ LAST_SEEN = EmptyDict
    /\ conn = [c \in Conns |-> NoConn]
    /\ groups = [g \in {group_name(r) : r \in Rooms} |-> {}]
    /\ inbox = [c \in Conns |-> <<>>]
    /\ tasks = [t \in TaskIds |-> NoTask]
    /\ used = [connects |-> 0, locks |-> 0, payloads |-> MaxPayloads, failures |-> 0]
    /\ hist = NoHist
    /\ REACTIONS = EmptyDict
    /\ sent = {}
    /\ codec \in {[NoCodec EXCEPT !.st = "text", !.text = t] : t \in Texts}

\* encoded_msg, codes = encode_text(message)
codec_encode ==
    /\ codec.st = "text"
    /\ LET pair == encode_text(codec.text)
       IN  codec' = [codec EXCEPT !.st = "encoded",
                                  !.encoded_text = pair.encoded_text,
                                  !.codes = pair.codes]
    /\ UNCHANGED <<db, ROOM_USERS, ROOM_TIMERS, LAST_SEEN, conn, groups, inbox,
                   tasks, used, hist, REACTIONS, sent>>

\* decoded = decode_text(event["message"], event["codes"])
codec_decode ==
    /\ codec.st = "encoded"
    /\ codec' = [codec EXCEPT !.st = "decoded",
                              !.decoded = decode_text(codec.encoded_text, codec.codes)]
    /\ UNCHANGED <<db, ROOM_USERS, ROOM_TIMERS, LAST_SEEN, conn, groups, inbox,
                   tasks, used, hist, REACTIONS, sent>>

NextCodec == codec_encode \/ codec_decode

SpecCodec == InitCodec /\ [][NextCodec]_vars

TypeOK ==
    /\ DOMAIN db \subseteq Rooms
    /\ \A c \in Conns : Len(inbox[c]) <= MaxInbox
    /\ \A t \in TaskIds : tasks[t].left \in 0..DELETE_TIMEOUT

\* ===================================================================== claims
\* the step admits connection c: lines 168-183 ran for it
Admits(c) == conn[c].user_name = None /\ conn'[c].user_name # None

\* the step deletes the row of room r
Deletes(r) == r \in DOMAIN db /\ r \notin DOMAIN db'

\* the step ends task t inside its delete call
Fires(t) == tasks[t].st \in {"deleting", "cancelled"} /\ tasks'[t].st = "none"

\* C1. Gate monotonicity: once a lock_room command has locked a room with
\* allowlist A, no connection of a user outside A is admitted to it, however
\* the connect's store reads interleave with the other sessions.
C1_GateMonotonicity ==
    [][\A c \in Conns :
          (Admits(c) /\ conn[c].room \in DOMAIN hist.locked_with)
              => conn'[c].user_name \in hist.locked_with[conn[c].room]]_vars

\* C2. Lifecycle timer cancellation: a countdown during whose 30 units a user
\* was admitted to the room never deletes the room.
C2_JoinStopsCountdown ==
    [][\A t \in TaskIds :
          (Fires(t) /\ Deletes(tasks[t].room)) => t \notin hist.joined]_vars

\* the online list of room r
Online(r) == Get(ROOM_USERS, group_name(r), <<>>)

\* C3. Disconnect debounce: when a user is admitted again less than 3 units
\* after the user's connection to the room closed, the user was in the online
\* list all the while and no user_leave for the user reached a member.
C3_DisconnectDebounce ==
    [][\A c \in Conns :
          LET k == <<group_name(conn[c].room), conn'[c].user_name>>
          IN  (Admits(c) /\ k \in DOMAIN hist.closed)
                  => /\ k \notin hist.dropped
                     /\ Contains(Online(conn[c].room), conn'[c].user_name)]_vars

\* another connection of the same user to the same room is open
OpenElsewhere(c) ==
    \E d \in Conns \ {c} :
        /\ conn[d].user_name = conn[c].user_name
        /\ conn[d].room = conn[c].room
        /\ conn[d].pc \notin {"idle", "gone"}

\* C4. A real disconnect completes the leave: 3 units after an admitted
\* session closed, its user not having reconnected in between, the session is
\* unsubscribed from the group and its user is off the online list.
C4_RealDisconnectLeaves ==
    \A c \in Conns :
        (conn[c].pc = "gone" /\ conn[c].since_close = REFRESH_GRACE
                             /\ ~ conn[c].reconnected)
            => /\ c \notin groups[group_name(conn[c].room)]
               /\ Contains(Online(conn[c].room), conn[c].user_name)
                      => OpenElsewhere(c)

\* every connection has closed and its disconnect handler has returned
AllDisconnected ==
    \A c \in Conns : conn[c].pc \in ({"idle", "gone"} \cup Rejected)

Countdowns(r) == {t \in Running(tasks) : tasks[t].room = r}

\* C5. Eventual deletion: once every user of a room has disconnected, the room
\* is on a countdown that ends 30 units after it became empty, and once the
\* row is deleted and no countdown is left the online and timer tables hold
\* no entry for the room.
C5_EventualDeletion ==
    AllDisconnected =>
        \A r \in Rooms :
            /\ r \in hist.populated
                  => \E t \in Countdowns(r) :
                        tasks[t].left + Get(hist.empty_for, group_name(r), 0)
                            <= DELETE_TIMEOUT
            /\ (r \notin DOMAIN db /\ Countdowns(r) = {})
                  => /\ group_name(r) \notin DOMAIN ROOM_USERS
                     /\ group_name(r) \notin DOMAIN ROOM_TIMERS

\* C6. Deletion only after 30 continuous empty units: when the row of a room
\* is deleted, the room's online list is empty and has been empty for the 30
\* units before the deletion.
C6_DeletedOnlyAfterGrace ==
    [][\A r \in Rooms :
          Deletes(r)
              => /\ IsEmpty(ROOM_USERS, group_name(r))
                 /\ group_name(r) \in DOMAIN hist.empty_for
                 /\ hist.empty_for[group_name(r)] = DELETE_TIMEOUT]_vars

\* deletion tasks of room r that have neither fired nor been cancelled
Pending(r) ==
    {t \in TaskIds : tasks[t].room = r /\ tasks[t].st \in {"sleeping", "deleting"}}

\* a disconnect handler of room r is between line 204 and line 212
Leaving(r) ==
    \E c \in Conns : /\ conn[c].room = r
                     /\ conn[c].pc \in {"send_user_leave", "group_discard"}

\* C7. DeletionTimer invariant: outside a running disconnect handler, the timer
\* table has an entry for a room iff the room's online list is empty and a
\* deletion of the room has neither fired nor been cancelled.
C7_DeletionTimerIff ==
    \A r \in Rooms :
        ~ Leaving(r)
            => ((group_name(r) \in DOMAIN ROOM_TIMERS)
                   <=> (IsEmpty(ROOM_USERS, group_name(r)) /\ Pending(r) # {}))

\* C8. At most one deletion task per room has been started and has neither
\* fired nor been cancelled.
C8_OnePendingDeletion ==
    \A r \in Rooms : Cardinality(Pending(r)) <= 1

\* a step of connection c on a path of connect that has not passed line 159,
\* or of the disconnect callback after a refused handshake
RefusedPathStep(c) ==
    /\ conn'[c] # conn[c]
    /\ conn[c].pc \in ({"idle", "refresh", "user_is_allowed"} \cup Rejected)
    /\ conn'[c].pc \in ({"idle", "refresh", "user_is_allowed"} \cup Rejected)

\* C9. Rejected paths change nothing: no step of a connect attempt that is
\* refused, nor of its disconnect callback, changes the online table, the timer
\* table, the tasks, LAST_SEEN, a room row, a group or an inbox, and the
\* connection is neither accepted nor subscribed.
C9_RejectedChangesNothing ==
    [][\A c \in Conns :
          RefusedPathStep(c)
              => /\ UNCHANGED <<db, ROOM_USERS, ROOM_TIMERS, LAST_SEEN, tasks,
                                groups, inbox>>
                 /\ ~ conn'[c].accepted
                 /\ \A g \in DOMAIN groups : c \notin groups'[g]]_vars

\* a connection refused at the lock gate while the room has a member online
C9_Witness ==
    \E c \in Conns :
        /\ conn[c].pc = "forbidden"
        /\ conn[c].room \in DOMAIN db
        /\ db[conn[c].room].is_locked
        /\ ~ IsEmpty(ROOM_USERS, group_name(conn[c].room))
        /\ ~ conn[c].accepted

\* C10. Two connections refused for different causes were closed with
\* different close codes.
C10_DistinctCloseCodes ==
    \A c, d \in Conns :
        (conn[c].pc \in Rejected /\ conn[d].pc \in Rejected
                                 /\ conn[c].pc # conn[d].pc)
            => conn[c].close_code # conn[d].close_code

\* no element occurs twice in list s
NoDuplicate(s) == \A i, j \in 1..Len(s) : s[i] = s[j] => i = j

C12_CodecRoundTrip ==
    codec.st = "decoded" => codec.decoded = codec.text

\* the round trip of texts with two or more distinct characters
RoundTripOfMixedTexts ==
    (codec.st = "decoded" /\ Cardinality(ToSet(codec.text)) > 1)
        => codec.decoded = codec.text

\* the step is session c receiving payload p
Receives(c, p) ==
    /\ used'.payloads = used.payloads + 1
    /\ hist'.received = <<c, p>>

\* a payload with no command whose message has non-empty trimmed text
ChatPayload(p) ==
    /\ p.loads = "dict"
    /\ "command" \notin DOMAIN p.data
    /\ "message" \in DOMAIN p.data
    /\ p.data.message.isstr
    /\ strip(p.data.message.val) # <<>>

\* the chat event a client is to see for payload p received by session c
ChatOf(c, p) ==
    [type |-> "chat", message |-> strip(p.data.message.val),
     user |-> normalize(conn[c].scope_user), color |-> conn[c].user_color]

\* session m handles the event at the head of its channel
Handles(m) ==
    /\ conn[m].pc = "active"
    /\ inbox[m] # <<>>
    /\ inbox'[m] = Tail(inbox[m])

\* C13. Chat fan-out: when an active session receives a payload with no
\* command and non-empty trimmed text, the channel of every connection
\* subscribed to the room's group, the sender's included, gets exactly one
\* more event, which is delivered as one chat event carrying the sender's
\* normalized name, the sender's colour and the trimmed text.
C13_ChatFanOut ==
    [][/\ \A c \in Conns, p \in Payloads :
             Receives(c, p) /\ ChatPayload(p)
                => /\ c \in Receivers(group_name(conn[c].room))
                   /\ \A m \in Receivers(group_name(conn[c].room)) :
                         /\ Len(inbox'[m]) = Len(inbox[m]) + 1
                         /\ SubSeq(inbox'[m], 1, Len(inbox[m])) = inbox[m]
                         /\ inbox'[m][Len(inbox'[m])].type = "chat_message"
                         /\ frame(inbox'[m][Len(inbox'[m])]) = ChatOf(c, p)
       /\ \A m \in Conns :
             Handles(m) /\ Head(inbox[m]).type = "chat_message"
                => sent' = {[to |-> m, data |-> frame(Head(inbox[m]))]}]_vars

\* texts of two different characters are fanned out as C13 says
C13_FanOutOfMixedTexts ==
    [][\A c \in Conns, p \in Payloads :
          /\ Receives(c, p)
          /\ ChatPayload(p)
          /\ Cardinality(ToSet(strip(p.data.message.val))) > 1
          => \A m \in Receivers(group_name(conn[c].room)) :
                /\ Len(inbox'[m]) = Len(inbox[m]) + 1
                /\ frame(inbox'[m][Len(inbox'[m])]) = ChatOf(c, p)]_vars

\* a reaction signal
ReactionPayload(p) == p.loads = "dict" /\ "reaction" \in DOMAIN p.data

\* the counter REACTIONS keeps for reaction kind of group g
tally(table, g, kind) ==
    IF g \in DOMAIN table /\ kind \in DOMAIN table[g] THEN table[g][kind] ELSE 0

\* C14. Reaction tallies: when an active session receives a like or a
\* dislike, the room's counter of that reaction grows by one, the other
\* counter is unchanged, and a reaction event with the updated pair is put
\* on the channel of every subscriber; no step lowers a counter of a room
\* that exists.
C14_ReactionTallies ==
    [][/\ \A c \in Conns, p \in Payloads :
             Receives(c, p) /\ ReactionPayload(p)
                => LET g == group_name(conn[c].room)
                       other == IF p.data.reaction = "like" THEN "dislike" ELSE "like"
                   IN  /\ tally(REACTIONS', g, p.data.reaction)
                             = tally(REACTIONS, g, p.data.reaction) + 1
                       /\ tally(REACTIONS', g, other) = tally(REACTIONS, g, other)
                       /\ \A m \in Receivers(g) :
                             /\ Len(inbox'[m]) = Len(inbox[m]) + 1
                             /\ frame(inbox'[m][Len(inbox'[m])])
                                   = [type |-> "reaction",
                                      likes |-> tally(REACTIONS', g, "like"),
                                      dislikes |-> tally(REACTIONS', g, "dislike")]
       /\ \A r \in DOMAIN db \cap DOMAIN db', kind \in {"like", "dislike"} :
             tally(REACTIONS', group_name(r), kind) >= tally(REACTIONS, group_name(r), kind)]_vars

\* a payload that is not JSON, not a JSON object, or whose message is no string
Malformed(p) ==
    \/ p.loads = "JSONDecodeError"
    \/ p.loads = "list"
    \/ p.loads = "dict" /\ "message" \in DOMAIN p.data /\ ~p.data.message.isstr

\* C15. Malformed inbound payloads are recovered locally: when an active
\* session receives a malformed payload, nothing is broadcast, presence,
\* timers and the room records are unchanged, and the session stays active,
\* ready for its next payload.
C15_MalformedDropped ==
    [][\A c \in Conns, p \in Payloads :
          Receives(c, p) /\ Malformed(p)
             => /\ inbox' = inbox
                /\ ROOM_USERS' = ROOM_USERS
                /\ ROOM_TIMERS' = ROOM_TIMERS
                /\ db' = db
                /\ conn'[c].pc = "active"]_vars

\* what does hold of a malformed payload: nothing is broadcast or written
C15_MalformedWritesNothing ==
    [][\A c \in Conns, p \in Payloads :
          Receives(c, p) /\ Malformed(p)
             => /\ inbox' = inbox
                /\ ROOM_USERS' = ROOM_USERS
                /\ ROOM_TIMERS' = ROOM_TIMERS
                /\ db' = db]_vars

\* session c runs lock_room_with_usernames on the row of its room
Locks(c) ==
    /\ conn[c].pc = "lock_room_with_usernames"
    /\ conn'[c].pc # "lock_room_with_usernames"
    /\ conn[c].room \in DOMAIN db

\* the normalized presence snapshot session c took for its lock_room command
snapshot(c) == {normalize(u) : u \in ToSet(conn[c].online)}

\* C16. Lock transition: the step that processes a lock_room command sets
\* the flag and makes the allowlist the union of the allowlist found and the
\* command's snapshot; and no step on a room's row loses an allowlist entry
\* or writes the flag back to false.
C16_LockTransition ==
    [][/\ \A c \in Conns :
             Locks(c)
                => /\ conn[c].room \in DOMAIN db'
                   /\ db'[conn[c].room].is_locked
                   /\ ToSet(db'[conn[c].room].allowed_usernames)
                         = ToSet(db[conn[c].room].allowed_usernames) \cup snapshot(c)
       /\ \A r \in DOMAIN db \cap DOMAIN db' :
             /\ db[r].is_locked => db'[r].is_locked
             /\ ToSet(db[r].allowed_usernames) \subseteq ToSet(db'[r].allowed_usernames)]_vars

\* a room was locked while a connect was between its allowlist write and its
\* admission: the entry it wrote, absent from the snapshot, is kept
C16_Witness ==
    \E c, d \in Conns :
        /\ c # d
        /\ conn[c].pc = "lock_sync_allowed_user_m2m"
        /\ conn[d].pc = "sync_allowed_user_m2m"
        /\ conn[d].room = conn[c].room
        /\ conn[c].room \in DOMAIN db
        /\ db[conn[c].room].is_locked
        /\ normalize(conn[d].scope_user) \notin snapshot(c)
        /\ Contains(db[conn[c].room].allowed_usernames, normalize(conn[d].scope_user))

\* C17. Frozen allowlist: a step that is no lock_room command leaves the
\* allowlist of a room whose stored flag is true as it was; the auto-add of
\* connect writes to no such room.
C17_FrozenAllowlist ==
    [][\A r \in DOMAIN db \cap DOMAIN db' :
          db[r].is_locked /\ (\A c \in Conns : ~Locks(c))
             => db'[r].allowed_usernames = db[r].allowed_usernames]_vars

\* C18. Join-before-chat ordering: a member that was subscribed when a
\* connection was admitted handles no chat event of that connection while
\* the notice of that connection's join has not been delivered to it.
C18_JoinBeforeChat ==
    [][\A m \in Conns :
          Handles(m) /\ Head(inbox[m]).type = "chat_message"
             => <<m, Head(inbox[m]).src>> \notin hist.unseen]_vars

\* a member subscribed when the sender was admitted has been delivered the
\* join notice and now a chat event of that sender
C18_Witness ==
    \E m, c \in Conns :
        \E e \in {f.data : f \in {f \in sent : f.to = m}} :
            /\ c # m
            /\ <<m, c>> \in hist.seen
            /\ e.type = "chat"
            /\ e.user = conn[c].user_name
            /\ conn[m].user_name # conn[c].user_name

\* the delete call of task t fails
Fails(t) ==
    /\ tasks[t].st = "deleting"
    /\ used'.failures = used.failures + 1

\* C19. Deletion failure still clears bookkeeping: when the delete call of
\* a room's countdown fails, the room's entries in the presence table and
\* in the timer table are removed all the same, and no finished task stays
\* registered for the room.
C19_FailureClearsBookkeeping ==
    [][\A t \in TaskIds :
          Fails(t)
             => /\ group_name(tasks[t].room) \notin DOMAIN ROOM_USERS'
                /\ group_name(tasks[t].room) \notin DOMAIN ROOM_TIMERS'
                /\ tasks'[t].st # "done"]_vars

\* the four outbound shapes
Shaped(e) ==
    \/ e.type = "chat" /\ DOMAIN e = {"type", "user", "color", "message"}
    \/ e.type = "system" /\ DOMAIN e = {"type", "user", "message"} /\ e.user = "System"
    \/ e.type = "user_list" /\ DOMAIN e = {"type", "users"}
    \/ e.type = "reaction" /\ DOMAIN e = {"type", "likes", "dislikes"}

\* C20. Every event a session sends to its client is a chat, system,
\* user_list or reaction event of the documented shape, the notice that
\* follows a lock_room command included.
C20_OutboundShapes == \A f \in sent : Shaped(f.data)

\* every event sent is of a documented shape or the lock notice
C20_ShapesButLockNotice ==
    \A f \in sent : Shaped(f.data) \/ f.data.type = "system_message"

\* connection c has been accepted and has not closed
Open(c) ==
    /\ conn[c].accepted
    /\ conn[c].pc \notin ({"idle", "gone", "send_user_leave", "group_discard", "crashed"}
                          \cup Rejected)

\* C21. Presence covers live connections: a user with an accepted connection
\* to a room that has not closed is in the room's presence list; closing one
\* of the user's connections to the room does not remove the user while
\* another is open.
C21_PresenceCoversLive ==
    \A c \in Conns : Open(c) => Contains(Online(conn[c].room), conn[c].user_name)

\* the disconnect handler of connection c has returned, or c never connected
Returned(c) == conn[c].pc \in {"idle", "gone"}

\* C22. No subscription outlives its connection: once the disconnect
\* handler of an admitted session has returned, on the path that ignores the
\* disconnect as a quick refresh as on the other, the session's channel is
\* in no broadcast group.
C22_NoSubscriptionOutlives ==
    \A c \in Conns : Returned(c) => \A g \in DOMAIN groups : c \notin groups[g]

\* the path of disconnect that is not taken for a refresh leaves no subscription
C22_FullPathUnsubscribes ==
    \A c \in Conns : conn[c].pc = "idle" => \A g \in DOMAIN groups : c \notin groups[g]

\* C23. Presence implies existence: a room whose presence list is not empty
\* has a row in the store, and the clearing that follows a finished delete
\* (lines 221-222) discards no presence list that holds a user.
C23_PresenceImpliesExistence ==
    [][/\ \A r \in Rooms : Online(r)' # <<>> => r \in DOMAIN db'
       /\ \A r \in Rooms :
             Deletes(r) /\ group_name(r) \notin DOMAIN ROOM_USERS'
                => Online(r) = <<>>]_vars

\* C24. Presence is within the allowlist: every user in the presence list
\* of a room is in the allowlist stored for the room, and the step that
\* processes a lock_room command adds no user to the allowlist.
C24_PresenceWithinAllowlist ==
    [][/\ \A r \in DOMAIN db' :
             ToSet(Online(r)') \subseteq ToSet(db'[r].allowed_usernames)
       /\ \A c \in Conns :
             Locks(c) /\ conn[c].room \in DOMAIN db'
                => ToSet(db'[conn[c].room].allowed_usernames)
                      = ToSet(db[conn[c].room].allowed_usernames)]_vars

====
